---- MODULE Spec2Model ----
(***************************************************************************)
(* Model of tracker_cli.py (src/main.py): a Tk window whose event loop     *)
(* fires TrackerApp._tick at a fixed interval; each tick queries user32    *)
(* for the cursor position and the window / client rectangles and prints   *)
(* one line.  Escape calls TrackerApp.stop; Ctrl+C exits the process.      *)
(*                                                                         *)
(* Units: the interval is kept in whole milliseconds (0.1 s = 100,         *)
(* 0.01 s = 10); for whole-millisecond values int(interval * 1000) is the  *)
(* identity.  A window handle of 0 stands for both None and 0: the code    *)
(* only ever tests the handle for truth.  The timestamp of a sample line   *)
(* (time.perf_counter) is left out of the line record.                     *)
(***************************************************************************)
EXTENDS Integers, Sequences, FiniteSets, TLC

VARIABLES argv, interval, stop, hwnd, pending, pc, ticks, stdout, stderr, last

vars == <<argv, interval, stop, hwnd, pending, pc, ticks, stdout, stderr, last>>

(* ---------------- bounds ---------------- *)
MaxTicks == 3
MaxArgMs == 11

(* ---------------- program constants ---------------- *)
DefaultMs == 100
MinMs == 10
NoHwnd == 0

ZeroRect == <<0, 0, 0, 0>>
ZeroPoint == <<0, 0>>

(* ---------------- inputs ---------------- *)
\* sys.argv[1:]: absent, text float() rejects, or a number of milliseconds
Args ==
  {[kind |-> "absent", ms |-> 0], [kind |-> "malformed", ms |-> 0]}
    \cup {[kind |-> "num", ms |-> m] : m \in {-1, 0} \cup (MinMs - 2)..MaxArgMs}

\* what user32 / Tk answer during one tick; the value of a failing call is
\* never read, so one representative is kept for it
OSOutcomes ==
  {o \in
  [winfo_ok : BOOLEAN, winfo_id : {0, 66},
   GetCursorPos : BOOLEAN, cursor : {<<120, 140>>, <<-3, 900>>},
   GetWindowRect : BOOLEAN, wrect : {<<100, 100, 500, 340>>},
   GetClientRect : BOOLEAN, rc : {<<0, 0, 384, 200>>},
   ClientToScreen : BOOLEAN, origin : {<<108, 132>>},
   ScreenToClient : BOOLEAN] :
     /\ (~o.winfo_ok => o.winfo_id = 0)
     /\ (~o.GetCursorPos => o.cursor = <<-3, 900>>)}

DpiOutcomes == {0, 96, 144}

(* ---------------- results of calls that may raise ---------------- *)
Ok(v) == [ok |-> TRUE, val |-> v, exc |-> ""]
Raise(m, v) == [ok |-> FALSE, val |-> v, exc |-> m]

(* ---------------- Win32 wrappers ---------------- *)
get_cursor_pos_swallow(os) ==
  IF ~os.GetCursorPos THEN Ok(ZeroPoint) ELSE Ok(os.cursor)

get_cursor_pos(os) ==
  IF ~os.GetCursorPos THEN Raise("GetCursorPos failed", ZeroPoint)
  ELSE Ok(os.cursor)

get_window_rect_swallow(os, h) ==
  IF ~os.GetWindowRect THEN Ok(ZeroRect) ELSE Ok(os.wrect)

get_window_rect(os, h) ==
  IF ~os.GetWindowRect THEN Raise("GetWindowRect failed", ZeroRect)
  ELSE Ok(os.wrect)

get_client_rect_screen(os, h) ==
  IF ~os.GetClientRect THEN Raise("GetClientRect failed", ZeroRect)
  ELSE IF ~os.ClientToScreen THEN Raise("ClientToScreen failed", ZeroRect)
  ELSE LET left == os.origin[1]
           top == os.origin[2]
           width == os.rc[3] - os.rc[1]
           height == os.rc[4] - os.rc[2]
       IN Ok(<<left, top, left + width, top + height>>)

screen_to_client(os, h, x, y) ==
  IF ~os.ScreenToClient THEN Raise("ScreenToClient failed", ZeroPoint)
  ELSE Ok(<<x - os.origin[1], y - os.origin[2]>>)

\* int(self.root.winfo_id())
winfo_id(os) ==
  IF ~os.winfo_ok THEN Raise("winfo_id failed", NoHwnd) ELSE Ok(os.winfo_id)

(* ---------------- startup ---------------- *)
\* main: interval = 0.1; float(sys.argv[1]) if present, usage line on ValueError
main_interval(a) ==
  IF a.kind = "num" THEN a.ms ELSE DefaultMs

main_stderr(a) ==
  IF a.kind = "malformed" THEN <<"usage">> ELSE <<>>

Max(a, b) == IF a >= b THEN a ELSE b

TrackerApp_interval_noclamp(interval_ms) == interval_ms

\* self.interval = max(0.01, float(interval_sec))
TrackerApp_interval(interval_ms) == Max(MinMs, interval_ms)

\* __init__: self.hwnd = None; try: int(winfo_id()) except: pass
init_hwnd(ok, id) == IF ok THEN id ELSE NoHwnd

header_dpi_first(h, dpi) ==
  IF h # NoHwnd /\ dpi # 0 THEN <<"dpi", "banner">> ELSE <<"banner">>

\* __init__: the banner, then the DPI line when a handle and a DPI exist
header(h, dpi) ==
  IF h # NoHwnd /\ dpi # 0 THEN <<"banner", "dpi">> ELSE <<"banner">>

(* ---------------- TrackerApp._tick ---------------- *)
NotCalled ==
  [resolve |-> "notcalled", cursor |-> "notcalled", win |-> "notcalled",
   client |-> "notcalled", s2c |-> "notcalled"]

Status(r) == IF r.ok THEN "ok" ELSE "failed"

tick_returns_early_never(flag) == FALSE

\* if self._stop.is_set(): return
tick_returns_early(flag) == flag

tick_rel_nocatch(os, h, mx, my) ==
  IF h # NoHwnd THEN screen_to_client(os, h, mx, my) ELSE Ok(ZeroPoint)

\* try: relx, rely = screen_to_client(...) if self.hwnd else (0, 0)
\* except OSError: relx, rely = (0, 0)
tick_rel(os, h, mx, my) ==
  IF h # NoHwnd
  THEN LET s == screen_to_client(os, h, mx, my)
       IN IF s.ok THEN s ELSE Ok(ZeroPoint)
  ELSE Ok(ZeroPoint)

\* the try / except Exception block of _tick: the handle after it, the sample
\* lines and the error lines it printed, and which queries it made
tick_try(h0, os) ==
  LET failed(h, q, r) == [hwnd |-> h, out |-> <<>>, err |-> <<r.exc>>, q |-> q]
      res == IF h0 = NoHwnd THEN winfo_id(os) ELSE Ok(h0)
      q1 == IF h0 = NoHwnd THEN [NotCalled EXCEPT !.resolve = Status(res)]
            ELSE NotCalled
  IN IF ~res.ok THEN failed(h0, q1, res)
     ELSE
     LET h == res.val
         c == get_cursor_pos(os)
         q2 == [q1 EXCEPT !.cursor = Status(c)]
     IN IF ~c.ok THEN failed(h, q2, c)
        ELSE
        LET w == IF h # NoHwnd THEN get_window_rect(os, h) ELSE Ok(ZeroRect)
            q3 == IF h # NoHwnd THEN [q2 EXCEPT !.win = Status(w)] ELSE q2
        IN IF ~w.ok THEN failed(h, q3, w)
           ELSE
           LET cr == IF h # NoHwnd THEN get_client_rect_screen(os, h)
                     ELSE Ok(ZeroRect)
               q4 == IF h # NoHwnd THEN [q3 EXCEPT !.client = Status(cr)]
                     ELSE q3
           IN IF ~cr.ok THEN failed(h, q4, cr)
              ELSE
              LET rel == tick_rel(os, h, c.val[1], c.val[2])
                  q5 == IF h # NoHwnd
                        THEN [q4 EXCEPT !.s2c =
                                IF os.ScreenToClient THEN "ok" ELSE "failed"]
                        ELSE q4
              IN IF ~rel.ok THEN failed(h, q5, rel)
                 ELSE [hwnd |-> h,
                       out |-> <<[mouse |-> c.val, win |-> w.val,
                                  client |-> cr.val, rel |-> rel.val]>>,
                       err |-> <<>>,
                       q |-> q5]

tick_resched_in_try(r) == IF r.err = <<>> THEN 1 ELSE 0

tick_resched_twice(r) == 1 + 1

\* self.root.after(int(self.interval * 1000), self._tick), after the try block
tick_resched(r) == 1

Kinds(lines, k) == [i \in 1..Len(lines) |-> k]

NoOS == CHOOSE o \in OSOutcomes : TRUE

TrackerApp_tick ==
  /\ pc = "mainloop"
  /\ pending > 0
  /\ IF tick_returns_early(stop)
     THEN /\ pending' = pending - 1
          /\ last' = [op |-> "tick", stopAtStart |-> stop, os |-> NoOS,
                      q |-> NotCalled, out |-> <<>>, err |-> <<>>, sched |-> 0]
          /\ UNCHANGED <<argv, interval, stop, hwnd, pc, ticks, stdout, stderr>>
     ELSE /\ ticks < MaxTicks
          /\ \E os \in OSOutcomes :
               LET r == tick_try(hwnd, os)
                   n == tick_resched(r)
               IN /\ hwnd' = r.hwnd
                  /\ stdout' = stdout \o Kinds(r.out, "sample")
                  /\ stderr' = stderr \o Kinds(r.err, "error")
                  /\ pending' = pending - 1 + n
                  /\ last' = [op |-> "tick", stopAtStart |-> stop, os |-> os,
                              q |-> r.q, out |-> r.out, err |-> r.err,
                              sched |-> n]
          /\ ticks' = ticks + 1
          /\ UNCHANGED <<argv, interval, stop, pc>>

(* ---------------- TrackerApp.stop ---------------- *)
stop_set_forgotten(flag) == flag

\* self._stop.set()
stop_set(flag) == TRUE

\* <Escape> binding -> stop(): set the flag, then root.quit() (a failure of
\* quit is swallowed and the event loop goes on)
TrackerApp_stop ==
  /\ pc = "mainloop"
  /\ stop' = stop_set(stop)
  /\ \E quit_ok \in BOOLEAN :
       pc' = IF quit_ok THEN "exited" ELSE "mainloop"
  /\ last' = [op |-> "stop", stopAtStart |-> stop, os |-> NoOS,
              q |-> NotCalled, out |-> <<>>, err |-> <<>>, sched |-> 0]
  /\ UNCHANGED <<argv, interval, hwnd, pending, ticks, stdout, stderr>>

(* ---------------- SIGINT ---------------- *)
\* signal.signal(SIGINT, lambda: sys.exit(0)): the process ends
sigint ==
  /\ pc = "mainloop"
  /\ pc' = "exited"
  /\ last' = [op |-> "sigint", stopAtStart |-> stop, os |-> NoOS,
              q |-> NotCalled, out |-> <<>>, err |-> <<>>, sched |-> 0]
  /\ UNCHANGED <<argv, interval, stop, hwnd, pending, ticks, stdout, stderr>>

(* ---------------- specification ---------------- *)
\* the state when main() enters app.run(): argument parsed, TrackerApp built
Init ==
  \E a \in Args, wok \in BOOLEAN, wid \in {0, 66}, dpi \in DpiOutcomes :
    /\ argv = a
    /\ interval = TrackerApp_interval(main_interval(a))
    /\ stop = FALSE
    /\ hwnd = init_hwnd(wok, wid)
    /\ stdout = header(init_hwnd(wok, wid), dpi)
    /\ stderr = main_stderr(a)
    /\ pending = 1
    /\ pc = "mainloop"
    /\ ticks = 0
    /\ last = [op |-> "init", stopAtStart |-> FALSE, os |-> NoOS,
               q |-> NotCalled, out |-> <<>>, err |-> <<>>, sched |-> 1]

Next == TrackerApp_tick \/ TrackerApp_stop \/ sigint

Spec == Init /\ [][Next]_vars

RunningTick == last.op = "tick" /\ ~last.stopAtStart

(* ======================= claims ======================= *)

C2_StoppedTickIsNoOp ==
  [][(stop /\ last'.op = "tick") =>
       (/\ last'.q = NotCalled
        /\ stdout' = stdout
        /\ stderr' = stderr
        /\ hwnd' = hwnd
        /\ last'.sched = 0
        /\ pending' = 0)]_vars

C2_Witness ==
  last.op = "tick" /\ last.stopAtStart /\ pending = 0 /\ pc = "mainloop"

\* C3 (as claimed): in a Running tick that ends with the handle still
\* unavailable (resolution returned no handle, or raised) and in which the
\* cursor query succeeds, a sample line is emitted with zero rectangles and
\* zero client-relative coordinates.
C3_UnavailableHandleStillEmits ==
  (RunningTick /\ hwnd = NoHwnd /\ last.os.GetCursorPos) =>
    (/\ last.err = <<>>
     /\ Len(last.out) = 1
     /\ last.out[1].win = ZeroRect
     /\ last.out[1].client = ZeroRect
     /\ last.out[1].rel = ZeroPoint)

\* C4 (as claimed): in a Running tick with a resolved handle where the window
\* or client rectangle query fails and the cursor query succeeds, the failure
\* is reported, the affected rectangle is zeroed and the sample line is
\* still emitted before rescheduling.
RectQueryFailed ==
  /\ RunningTick
  /\ last.q.win # "notcalled"
  /\ last.os.GetCursorPos
  /\ (~last.os.GetWindowRect \/ ~last.os.GetClientRect
        \/ ~last.os.ClientToScreen)

C4_RectFailureZeroedAndEmitted ==
  RectQueryFailed =>
    (/\ last.err # <<>>
     /\ Len(last.out) = 1
     /\ (~last.os.GetWindowRect => last.out[1].win = ZeroRect)
     /\ ((~last.os.GetClientRect \/ ~last.os.ClientToScreen)
           => last.out[1].client = ZeroRect)
     /\ pending = 1)

\* C4 (amended): in such a tick the failure is reported as one error line on
\* the diagnostic stream, no sample line is emitted for the cycle, and
\* exactly one next tick is scheduled.
C4_RectFailureReportedAndSkipped ==
  RectQueryFailed =>
    (/\ Len(last.err) = 1
     /\ last.err[1] \in {"GetWindowRect failed", "GetClientRect failed",
                         "ClientToScreen failed"}
     /\ stderr[Len(stderr)] = "error"
     /\ last.out = <<>>
     /\ pending = 1)

C4_Witness ==
  /\ RectQueryFailed
  /\ last.os.GetWindowRect
  /\ last.q.client = "failed"
  /\ last.err = <<"ClientToScreen failed">>

\* C5: a Running tick whose cursor query fails writes one error line to
\* stderr, emits no sample line, schedules the next tick and leaves the loop
\* Running.
C5_CursorFailureSkipsSample ==
  (RunningTick /\ last.q.cursor # "notcalled" /\ ~last.os.GetCursorPos) =>
    (/\ last.err = <<"GetCursorPos failed">>
     /\ stderr[Len(stderr)] = "error"
     /\ last.out = <<>>
     /\ pending = 1
     /\ ~stop
     /\ pc = "mainloop")

C5_Witness ==
  /\ RunningTick
  /\ last.q.cursor = "failed"
  /\ last.err = <<"GetCursorPos failed">>
  /\ ticks >= 2

\* C6: a Running tick whose cursor, window and client queries succeed but
\* whose screen-to-client translation fails emits a sample line with the real
\* cursor position and rectangles and (0,0) as relative coordinates, prints
\* no error, and reschedules.
C6_TranslationFailureGivesZero ==
  (RunningTick /\ last.q.s2c # "notcalled" /\ ~last.os.ScreenToClient) =>
    (/\ last.err = <<>>
     /\ last.out =
          <<[mouse |-> last.os.cursor,
             win |-> last.os.wrect,
             client |-> <<last.os.origin[1], last.os.origin[2],
                          last.os.origin[1] + (last.os.rc[3] - last.os.rc[1]),
                          last.os.origin[2] + (last.os.rc[4] - last.os.rc[2])>>,
             rel |-> ZeroPoint]>>
     /\ stdout[Len(stdout)] = "sample"
     /\ pending = 1)

C6_Witness ==
  /\ RunningTick
  /\ last.q.s2c = "failed"
  /\ Len(last.out) = 1
  /\ last.out[1].mouse = <<120, 140>>
  /\ last.out[1].rel = ZeroPoint

\* C7: for every startup argument the interval is positive and at least the
\* 10 ms floor: absent or malformed gives the 100 ms default (malformed also
\* a diagnostic line), a value below the floor is clamped to it, a value at
\* or above it is kept, and the interval never changes after startup.
IntervalOfArgument ==
  /\ interval > 0
  /\ interval >= MinMs
  /\ (argv.kind \in {"absent", "malformed"} => interval = DefaultMs)
  /\ (argv.kind = "malformed" => (Len(stderr) >= 1 /\ stderr[1] = "usage"))
  /\ (argv.kind # "malformed" => \A i \in 1..Len(stderr) : stderr[i] # "usage")
  /\ ((argv.kind = "num" /\ argv.ms < MinMs) => interval = MinMs)
  /\ ((argv.kind = "num" /\ argv.ms >= MinMs) => interval = argv.ms)

C7_IntervalFloorAndFixed ==
  []IntervalOfArgument /\ [][interval' = interval]_vars

C7_Witness ==
  argv.kind = "num" /\ argv.ms = MinMs - 1 /\ interval = MinMs /\ ticks >= 1

\* C8: stop() sets the stop flag; once it is set it is never cleared and no
\* sample line is emitted any more, although a tick may still be pending.
C8_NoSampleAfterStop ==
  /\ [](last.op = "stop" => stop)
  /\ [][stop => (stop' /\ stdout' = stdout)]_vars

C8_Witness ==
  /\ stop
  /\ last.op = "stop"
  /\ last.stopAtStart
  /\ pending = 1
  /\ pc = "mainloop"
  /\ stdout[Len(stdout)] = "sample"

\* C9: at most one tick is ever pending: one is scheduled at construction,
\* a Running tick replaces itself by exactly one, and the queue is empty only
\* after a tick has seen the stop flag.
C9_AtMostOnePending ==
  /\ pending \in {0, 1}
  /\ (pending = 0 => stop)
  /\ (last.op = "init" => pending = 1)

C9_Witness ==
  RunningTick /\ ticks = 2 /\ pending = 1

\* C10: every Running tick produces exactly one line, a sample on stdout or
\* an error on stderr; the banner is printed exactly once and is the first
\* line of stdout.
Count(seq, k) == Cardinality({i \in 1..Len(seq) : seq[i] = k})

C10_OneLinePerTick ==
  /\ (RunningTick => Len(last.out) + Len(last.err) = 1)
  /\ Count(stdout, "sample") + Count(stderr, "error") = ticks
  /\ Count(stdout, "banner") = 1
  /\ stdout[1] = "banner"

C10_Witness ==
  /\ RunningTick
  /\ Len(stdout) >= 3
  /\ stdout[2] = "dpi"
  /\ stdout[3] = "sample"
  /\ Count(stderr, "error") >= 1

====
